---- MODULE Spec2Model ----
(***************************************************************************)
(* State-transition model of the conformance-test pipeline of              *)
(* bins/evm-spec-tester/src/statetest/unit_tester/mod.rs:                  *)
(* UnitTester::run, UnitTester::execute_single_test, UnitTester::transact  *)
(* and pick_spec.                                                          *)
(*                                                                         *)
(* One behaviour is one call of UnitTester::run on one fixture (TestUnit). *)
(* The collaborators of the modules pre_transact and post_transact, the    *)
(* execution engine and the SpecName -> SpecId table are not part of       *)
(* mod.rs; they are modelled from their description in the specification.  *)
(***************************************************************************)
EXTENDS Integers, Sequences, FiniteSets, TLC

(* ------------------------------------------------------------------ *)
(* Bounds of the model                                                  *)
(* ------------------------------------------------------------------ *)

\* Greatest number of forks in a fixture's fork map (unit.post).
MaxForks == 2

\* Greatest number of cases in the case list of a fork.
MaxTests == 2

\* Greatest number of forks in a fork map that pick_spec alone is applied to.
MaxPickForks == 4

(* ------------------------------------------------------------------ *)
(* Option and Result values                                             *)
(* ------------------------------------------------------------------ *)

\* Option<T>: None is the empty tuple, Some(x) the one-element tuple.
None == <<>>
Some(x) == <<x>>
IsSome(o) == o # None
Unwrap(o) == o[1]

\* Result<T, E>.
Ok(v) == [tag |-> "Ok", val |-> v]
Err(e) == [tag |-> "Err", err |-> e]
IsOk(r) == r.tag = "Ok"
IsErr(r) == r.tag = "Err"

\* The unit value ().
Unit == "()"

(* ------------------------------------------------------------------ *)
(* Fork identifiers                                                     *)
(* ------------------------------------------------------------------ *)

\* The fork names a fixture may use. Paris and Merge are aliases of one
\* identifier; Osaka lies above the greatest supported fork.
SpecNames == {"London", "Paris", "Merge", "Prague", "Osaka"}

\* SpecName::to_spec_id: the totally ordered identifier of a fork name.
to_spec_id(name) ==
    CASE name = "London" -> 1
      [] name = "Paris"  -> 2
      [] name = "Merge"  -> 2
      [] name = "Prague" -> 3
      [] name = "Osaka"  -> 4

\* SpecId::PRAGUE, the greatest fork the runner supports.
PRAGUE == to_spec_id("Prague")

(* ------------------------------------------------------------------ *)
(* pick_spec                                                            *)
(* ------------------------------------------------------------------ *)

\* pick_filter with < for <=: the greatest supported fork is discarded.
pick_filter_strict(spec) ==
    LET spec_id == to_spec_id(spec.name)
    IN  IF spec_id < PRAGUE
        THEN Some([spec |-> spec, spec_id |-> spec_id])
        ELSE None

\* pick_filter without its condition: no fork is discarded.
pick_filter_all(spec) ==
    Some([spec |-> spec, spec_id |-> to_spec_id(spec.name)])

\* The closure of filter_map: Some((spec, spec_id)) when the fork is
\* supported, None otherwise.
pick_filter(spec) ==
    LET spec_id == to_spec_id(spec.name)
    IN  IF spec_id <= PRAGUE
        THEN Some([spec |-> spec, spec_id |-> spec_id])
        ELSE None

\* filter_map over the iterator, in iteration order.
RECURSIVE filter_map(_)
filter_map(specs) ==
    IF specs = <<>>
    THEN <<>>
    ELSE pick_filter(Head(specs)) \o filter_map(Tail(specs))

\* pick_fold_step with >= for >: on a tie the later fork replaces the choice.
pick_fold_step_last(acc, item) ==
    CASE IsSome(acc) /\ item.spec_id >= Unwrap(acc).spec_id -> Some(item)
      [] IsSome(acc) /\ item.spec_id < Unwrap(acc).spec_id -> acc
      [] acc = None -> Some(item)

\* The closure of fold: the accumulator after one more item.
pick_fold_step(acc, item) ==
    CASE IsSome(acc) /\ item.spec_id > Unwrap(acc).spec_id -> Some(item)
      [] IsSome(acc) /\ item.spec_id = Unwrap(acc).spec_id -> acc
      [] IsSome(acc) /\ item.spec_id < Unwrap(acc).spec_id -> acc
      [] acc = None -> Some(item)

\* fold(None, ...) over the filtered items, left to right.
RECURSIVE pick_fold(_, _)
pick_fold(items, acc) ==
    IF items = <<>>
    THEN acc
    ELSE pick_fold(Tail(items), pick_fold_step(acc, Head(items)))

\* pick_spec: the selected entry of the fork map, or None.
pick_spec(specs) ==
    LET r == pick_fold(filter_map(specs), None)
    IN  IF IsSome(r) THEN Some(Unwrap(r).spec) ELSE None

(* ------------------------------------------------------------------ *)
(* Fixture data                                                         *)
(* ------------------------------------------------------------------ *)

\* Strings are sequences of characters, so that `contains` can be computed.
FixturePath == <<"t", "/", "a">>
FixtureName == <<"a", "d", "d">>

\* The selection filters tried: absent, or one of these patterns.
Patterns == {<<"a", ":">>, <<"s", "u", "b">>}

\* The accounts of the world state: the transaction's sender and the
\* block's fee recipient.
Sender == "sender"
Coinbase == "coinbase"
Accounts == {Sender, Coinbase}

\* The fixture's pre-state snapshot (unit.pre): the balance of each account.
PreState == [a \in Accounts |-> IF a = Sender THEN 3 ELSE 1]

\* The expected-exception labels of the fixture format.
Labels == {"TR_IntrinsicGas", "TR_TypeNotSupported"}

\* The transaction template (unit.transaction): its indexed variants.
\*   decodable: whether a transaction can be constructed from the variant
\*   data:      the payload byte of the variant
\*   gate:      the verdict of the consensus verifier on the transaction
\*   engine:    what the execution engine does with the transaction
\*   reason:    the label of the verifier's or the engine's rejection
\*   charge:    gas consumed times effective price, when executed
TxTemplate ==
    << [decodable |-> FALSE, data |-> 16, gate |-> "ok",
        engine |-> "executed", reason |-> "TR_TypeNotSupported", charge |-> 0],
       [decodable |-> TRUE, data |-> 16, gate |-> "fail",
        engine |-> "executed", reason |-> "TR_IntrinsicGas", charge |-> 1],
       [decodable |-> TRUE, data |-> 16, gate |-> "ok",
        engine |-> "not_executed", reason |-> "TR_IntrinsicGas", charge |-> 0],
       [decodable |-> TRUE, data |-> 16, gate |-> "ok",
        engine |-> "executed", reason |-> "TR_IntrinsicGas", charge |-> 1],
       [decodable |-> TRUE, data |-> 16, gate |-> "ok",
        engine |-> "executed", reason |-> "TR_IntrinsicGas", charge |-> 2],
       [decodable |-> TRUE, data |-> 16, gate |-> "ok",
        engine |-> "db_error", reason |-> "TR_IntrinsicGas", charge |-> 0] >>

Indexes == DOMAIN TxTemplate

\* The block environment template (unit.env).
EnvTemplate == [currentCoinbase |-> Coinbase, currentNumber |-> 1]

\* unit.config.chainid.
ChainId == 1

\* Raw transaction bytes a case may declare: a payload byte and the
\* signature's v byte (27: legacy, 35 + 2 * chain id: EIP-155).
RawTxBytes == {<<d, v>> : d \in {16, 17}, v \in {27, 35 + 2 * ChainId}}

\* The expected post-state of a case (test.state): the balances the state
\* root commits to, the sender having paid a charge of 1 or 2 and the fee
\* recipient having received it. Each is wrong for the other charge.
ExpectedStates ==
    {[a \in Accounts |-> IF a = Sender THEN PreState[Sender] - c
                         ELSE PreState[Coinbase] + c] : c \in 1..2}

\* The cases (Test) a fork's case list may hold at position `pos`. `fork`
\* and `pos` name the list the case belongs to and its place in the list.
Tests(fork, pos) ==
    [fork : {fork},
     pos : {pos},
     indexes : Indexes,
     txbytes : {None} \cup {Some(b) : b \in RawTxBytes},
     expect_exception : {None} \cup {Some(l) : l \in Labels},
     state : ExpectedStates]

\* The cases the case lists of two fixtures run side by side may hold:
\* those with no declared bytes and no expected exception.
ParTests(fork, pos) ==
    {t \in Tests(fork, pos) :
        t.txbytes = None /\ t.expect_exception = None}

\* The engine-policy and verification-policy objects the caller passes to
\* every run.
Machine == [params |-> "espace"]
VerificationConfig == [check_chain_id |-> TRUE]

\* The path and name of a second fixture.
OtherPath == <<"t", "/", "b">>
OtherName == <<"s", "u", "b">>

\* The fork maps (unit.post) in their iteration order: sequences of
\* entries with pairwise different fork names.
ForkMaps(max) ==
    UNION {{m \in [1..n -> [name : SpecNames]] :
              \A j, k \in 1..n : j # k => m[j].name # m[k].name}
           : n \in 0..max}

(* ------------------------------------------------------------------ *)
(* State                                                                *)
(* ------------------------------------------------------------------ *)

VARIABLES
    self,            \* the UnitTester: path, name, unit
    matches,         \* the selection filter, Option<&str>
    pc,              \* the position of control in run / execute_single_test
    spec,            \* run: the entry pick_spec returned
    i,               \* run: the number of cases taken from the case list
    non_empty_unit,  \* run: the flag of the same name
    test,            \* execute_single_test: the case
    state,           \* execute_single_test: the Working State
    tx,              \* execute_single_test: the transaction
    env,             \* execute_single_test: the Execution Environment
    outcome,         \* execute_single_test: the raw ExecutionOutcome
    executed,        \* execute_single_test: the Executed record
    ret,             \* the value execute_single_test returned
    result,          \* the value run returned
    picks,           \* history: the number of calls of pick_spec
    trace,           \* history: per case, the collaborator calls and the end
    machine,         \* the engine-policy object every run borrows (&Machine)
    verification,    \* the verification-policy object (&VerificationConfig)
    parked,          \* the other worker's run while this one steps, or None
    who              \* the worker whose run the variables above hold

vars == <<self, matches, pc, spec, i, non_empty_unit, test, state, tx, env,
          outcome, executed, ret, result, picks, trace, machine, verification,
          parked, who>>

\* What no statement of run, execute_single_test or transact writes: the
\* borrowed policy objects and the run of the other worker.
outside == <<machine, verification, parked, who>>

locals == <<test, state, tx, env, outcome, executed>>

\* Two Working States are one instance: what is written to one is read
\* from the other.
SameInstance(a, b) ==
    /\ IsSome(a)
    /\ IsSome(b)
    /\ Unwrap(a).instance = Unwrap(b).instance

\* The instance of a value that is created and owned by the call in hand:
\* one that holds no Working State of the other worker.
NewInstance ==
    IF parked # None /\ IsSome(Unwrap(parked).state)
          /\ Unwrap(Unwrap(parked).state).instance = 1
    THEN 2
    ELSE 1

\* The cases a case list may hold at position `pos`: any case when one
\* fixture runs alone, the cases of ParTests when two run side by side.
Listed(fork, pos) ==
    IF parked = None THEN Tests(fork, pos) ELSE ParTests(fork, pos)

\* UnitTester::new.
new(path, name, unit) == [path |-> path, name |-> name, unit |-> unit]

\* err without the fixture's identity.
err_anonymous(kind) == [name |-> <<>>, path |-> <<>>, kind |-> kind]

\* UnitTester::err.
err(kind) == [name |-> self.name, path |-> self.path, kind |-> kind]

\* The state when run is called on a fixture whose fork map is in `maps`.
InitWith(maps) ==
    /\ \E post \in maps :
         self = new(FixturePath, FixtureName,
                    [pre |-> PreState, transaction |-> TxTemplate,
                     env |-> EnvTemplate, chainid |-> ChainId, post |-> post])
    /\ matches \in {None} \cup {Some(p) : p \in Patterns}
    /\ pc = "run"
    /\ spec = None
    /\ i = 0
    /\ non_empty_unit = FALSE
    /\ test = None
    /\ state = None
    /\ tx = None
    /\ env = None
    /\ outcome = None
    /\ executed = None
    /\ ret = None
    /\ result = None
    /\ picks = 0
    /\ trace = <<>>
    /\ machine = Machine
    /\ verification = VerificationConfig
    /\ parked = None
    /\ who = 1

Init == InitWith(ForkMaps(MaxForks))

\* The run the variables hold, as one value.
Worker ==
    [self |-> self, matches |-> matches, pc |-> pc, spec |-> spec, i |-> i,
     non_empty_unit |-> non_empty_unit, test |-> test, state |-> state,
     tx |-> tx, env |-> env, outcome |-> outcome, executed |-> executed,
     ret |-> ret, result |-> result, picks |-> picks, trace |-> trace]

\* Two workers, each about to call run on a fixture of its own with the
\* same &Machine and &VerificationConfig. The first fixture lists the
\* selected fork only, the second a tied alias after it.
InitPar ==
    /\ self = new(FixturePath, FixtureName,
                  [pre |-> PreState, transaction |-> TxTemplate,
                   env |-> EnvTemplate, chainid |-> ChainId,
                   post |-> <<[name |-> "Prague"]>>])
    /\ matches = None
    /\ pc = "run"
    /\ spec = None
    /\ i = 0
    /\ non_empty_unit = FALSE
    /\ test = None
    /\ state = None
    /\ tx = None
    /\ env = None
    /\ outcome = None
    /\ executed = None
    /\ ret = None
    /\ result = None
    /\ picks = 0
    /\ trace = <<>>
    /\ machine = Machine
    /\ verification = VerificationConfig
    /\ parked = Some([self |-> new(OtherPath, OtherName,
                                   [pre |-> PreState,
                                    transaction |-> TxTemplate,
                                    env |-> EnvTemplate, chainid |-> ChainId,
                                    post |-> <<[name |-> "Paris"],
                                               [name |-> "Merge"]>>]),
                      matches |-> Some(<<"s", "u", "b">>), pc |-> "run",
                      spec |-> None, i |-> 0, non_empty_unit |-> FALSE,
                      test |-> None, state |-> None, tx |-> None,
                      env |-> None, outcome |-> None, executed |-> None,
                      ret |-> None, result |-> None, picks |-> 0,
                      trace |-> <<>>])
    /\ who = 1

\* pick_spec alone, on larger fork maps.
InitPick == InitWith(ForkMaps(MaxPickForks))

(* ------------------------------------------------------------------ *)
(* Collaborators: pre_transact, post_transact, utils, the engine        *)
(* ------------------------------------------------------------------ *)

\* str::contains on sequences of characters.
contains(s, pat) ==
    \E k \in 0..(Len(s) - Len(pat)) : SubSeq(s, k + 1, k + Len(pat)) = pat

\* format!("{}::{}", path, name).
format(path, name) == path \o <<":", ":">> \o name

\* utils::extract_155_chain_id_from_raw_tx: the chain id the raw bytes'
\* signature carries, None for absent bytes and for a legacy signature.
extract_155_chain_id_from_raw_tx(txbytes) ==
    IF IsSome(txbytes) /\ Unwrap(txbytes)[2] >= 35
    THEN Some((Unwrap(txbytes)[2] - 35) \div 2)
    ELSE None

\* pre_transact::make_state: a fresh Working State from the pre-state.
\* `dirty` is the transient execution journal being uncommitted.
make_state(pre, instance) ==
    [balance |-> pre, dirty |-> FALSE, instance |-> instance]

\* pre_transact::make_tx: the transaction of the indexed variant, or None
\* when none can be constructed.
make_tx(transaction, indexes, chainid, unprotected) ==
    LET v == transaction[indexes]
    IN  IF v.decodable
        THEN Some([data |-> v.data,
                   chain_id |-> IF unprotected THEN None ELSE Some(chainid),
                   gate |-> v.gate, engine |-> v.engine,
                   reason |-> v.reason, charge |-> v.charge])
        ELSE None

\* The canonical encoding of a transaction: the payload byte and v.
rlp_bytes(t) ==
    <<t.data, IF IsSome(t.chain_id) THEN 35 + 2 * Unwrap(t.chain_id) ELSE 27>>

\* SignedTransaction::hash.
hash(t) == <<"keccak">> \o rlp_bytes(t)

\* pre_transact::check_tx_bytes.
check_tx_bytes(txbytes, t) ==
    IF IsSome(txbytes) /\ Unwrap(txbytes) # rlp_bytes(t)
    THEN Err("TxBytesMismatch")
    ELSE Ok(Unit)

\* pre_transact::make_block_env: the environment of the block, built under
\* the parameters of the machine.
make_block_env(m, template, chainid, tx_hash) ==
    [author |-> template.currentCoinbase, number |-> template.currentNumber,
     chain_id |-> chainid, transaction_hash |-> tx_hash,
     params |-> m.params]

\* pre_transact::check_tx_common: the consensus gate. The verifier judges
\* the transaction under the machine's parameters, which are those the
\* environment was built under, and, if the verification policy asks for
\* it, compares the chain id of a protected transaction with the block's.
check_tx_common(m, e, t, v) ==
    IF /\ t.gate = "ok"
       /\ e.params = m.params
       /\ (v.check_chain_id /\ IsSome(t.chain_id)) =>
            Unwrap(t.chain_id) = e.chain_id
    THEN Ok(Unit)
    ELSE Err(t.reason)

\* post_transact::process_consensus_check_fail.
process_consensus_check_fail(e, expect_exception) ==
    IF IsSome(expect_exception) /\ Unwrap(expect_exception) = e
    THEN Ok(Unit)
    ELSE Err("ConsensusCheckMismatch")

\* pre_transact::make_transact_options.
make_transact_options(check_settings) == [check_settings |-> check_settings]

\* ExecutiveContext::transact: the raw outcome of the engine, or a db error.
evm_transact(t, options) ==
    CASE t.engine = "executed" ->
           Ok([kind |-> "Executed", charge |-> t.charge])
      [] t.engine = "not_executed" ->
           Ok([kind |-> "NotExecuted", reason |-> t.reason])
      [] t.engine = "db_error" -> Err("db error")

\* The Working State after the engine ran `t` on it: the sender is charged
\* when the transaction is executed, and the journal is left uncommitted.
evm_state(st, t) ==
    [st EXCEPT !.balance = IF t.engine = "executed"
                           THEN [@ EXCEPT ![Sender] = @ - t.charge]
                           ELSE @,
               !.dirty = TRUE]

\* State::update_state_post_tx_execution.
update_state_post_tx_execution(st) == [st EXCEPT !.dirty = FALSE]

\* post_transact::extract_executed.
extract_executed(out, expect_exception) ==
    CASE out.kind = "Executed" /\ expect_exception = None ->
           Ok(Some([charge |-> out.charge]))
      [] out.kind = "Executed" /\ IsSome(expect_exception) ->
           Err("OutcomeMismatch")
      [] out.kind = "NotExecuted" /\ IsSome(expect_exception)
           /\ Unwrap(expect_exception) = out.reason -> Ok(None)
      [] OTHER -> Err("OutcomeMismatch")

\* post_transact::distribute_tx_fee_to_miner.
distribute_tx_fee_to_miner(st, exec, miner) ==
    [st EXCEPT !.balance[miner] = @ + exec.charge]

\* post_transact::check_execution_outcome.
check_execution_outcome(st, expected) ==
    IF st.balance = expected THEN Ok(Unit) ELSE Err("StateMismatch")

(* ------------------------------------------------------------------ *)
(* UnitTester::run                                                      *)
(* ------------------------------------------------------------------ *)

\* The history of the case being run, extended by `calls`, ending `end` and
\* returning `returned`.
Logged(calls, end, returned) ==
    [trace EXCEPT ![Len(trace)] =
        [@ EXCEPT !.calls = @ \o calls, !.outcome = end, !.ret = returned]]

\* Run_Filter with map_or(false, ..) for map_or(true, ..): without a filter
\* no fixture runs.
Run_Filter_default_false ==
    /\ pc = "run"
    /\ IF ~(IF matches = None THEN FALSE
            ELSE contains(format(self.path, self.name), Unwrap(matches)))
       THEN /\ result' = Some(Ok(FALSE))
            /\ pc' = "done"
       ELSE /\ pc' = "pick_spec"
            /\ UNCHANGED result
    /\ UNCHANGED <<outside, self, matches, spec, i, non_empty_unit, locals, ret,
                   picks, trace>>

\* run, the selection filter: a fixture the filter does not match is not run.
Run_Filter ==
    /\ pc = "run"
    /\ IF ~(IF matches = None THEN TRUE
            ELSE contains(format(self.path, self.name), Unwrap(matches)))
       THEN /\ result' = Some(Ok(FALSE))
            /\ pc' = "done"
       ELSE /\ pc' = "pick_spec"
            /\ UNCHANGED result
    /\ UNCHANGED <<outside, self, matches, spec, i, non_empty_unit, locals, ret,
                   picks, trace>>

\* run, the fork selection: no qualifying fork ends the run with Ok(false).
Run_PickSpec ==
    /\ pc = "pick_spec"
    /\ picks' = picks + 1
    /\ LET picked == pick_spec(self.unit.post)
       IN  IF picked = None
           THEN /\ result' = Some(Ok(FALSE))
                /\ pc' = "done"
                /\ UNCHANGED <<spec, non_empty_unit>>
           ELSE /\ spec' = picked
                /\ non_empty_unit' = FALSE
                /\ pc' = "for"
                /\ UNCHANGED result
    /\ UNCHANGED <<outside, self, matches, i, locals, ret, trace>>

\* Run_ForNext iterating the list of the first fork of the map instead of
\* the selected one.
Run_ForNext_first_fork ==
    /\ pc = "for"
    /\ i < MaxTests
    /\ \E single_test \in Tests(self.unit.post[1].name, i + 1) :
         /\ test' = Some(single_test)
         /\ trace' = Append(trace, [fork |-> single_test.fork,
                                    pos |-> single_test.pos,
                                    calls |-> <<>>, outcome |-> "running",
                                    ret |-> None])
    /\ i' = i + 1
    /\ pc' = "make_state"
    /\ UNCHANGED <<outside, self, matches, spec, non_empty_unit, state, tx, env,
                   outcome, executed, ret, result, picks>>

\* run, the loop: the next case of the selected fork's list is handed to
\* execute_single_test. The list is read as it is iterated: it holds any
\* number of cases up to MaxTests.
Run_ForNext ==
    /\ pc = "for"
    /\ i < MaxTests
    /\ \E single_test \in Listed(Unwrap(spec).name, i + 1) :
         /\ test' = Some(single_test)
         /\ trace' = Append(trace, [fork |-> single_test.fork,
                                    pos |-> single_test.pos,
                                    calls |-> <<>>, outcome |-> "running",
                                    ret |-> None])
    /\ i' = i + 1
    /\ pc' = "make_state"
    /\ UNCHANGED <<outside, self, matches, spec, non_empty_unit, state, tx, env,
                   outcome, executed, ret, result, picks>>

\* run, the end of the case list: Ok(non_empty_unit).
Run_ForEnd ==
    /\ pc = "for"
    /\ result' = Some(Ok(non_empty_unit))
    /\ pc' = "done"
    /\ UNCHANGED <<outside, self, matches, spec, i, non_empty_unit, locals, ret,
                   picks, trace>>

\* Run_CaseOk without non_empty_unit = true.
Run_CaseOk_unflagged ==
    /\ pc = "return"
    /\ IsOk(Unwrap(ret))
    /\ pc' = "for"
    /\ test' = None
    /\ state' = None
    /\ tx' = None
    /\ env' = None
    /\ outcome' = None
    /\ executed' = None
    /\ ret' = None
    /\ UNCHANGED <<outside, self, matches, spec, i, non_empty_unit, result, picks,
                   trace>>

\* run, after execute_single_test returned Ok(()): non_empty_unit = true,
\* and the loop goes on. The locals of execute_single_test are dropped.
Run_CaseOk ==
    /\ pc = "return"
    /\ IsOk(Unwrap(ret))
    /\ non_empty_unit' = TRUE
    /\ pc' = "for"
    /\ test' = None
    /\ state' = None
    /\ tx' = None
    /\ env' = None
    /\ outcome' = None
    /\ executed' = None
    /\ ret' = None
    /\ UNCHANGED <<outside, self, matches, spec, i, result, picks, trace>>

\* Run_CaseErr with the error dropped instead of returned: the loop goes on.
Run_CaseErr_swallowed ==
    /\ pc = "return"
    /\ IsErr(Unwrap(ret))
    /\ pc' = "for"
    /\ test' = None
    /\ state' = None
    /\ tx' = None
    /\ env' = None
    /\ outcome' = None
    /\ executed' = None
    /\ ret' = None
    /\ UNCHANGED <<outside, self, matches, spec, i, non_empty_unit, result, picks,
                   trace>>

\* run, after execute_single_test returned Err(e): the ? returns Err(e) at
\* once. The locals of execute_single_test are dropped.
Run_CaseErr ==
    /\ pc = "return"
    /\ IsErr(Unwrap(ret))
    /\ result' = ret
    /\ pc' = "done"
    /\ test' = None
    /\ state' = None
    /\ tx' = None
    /\ env' = None
    /\ outcome' = None
    /\ executed' = None
    /\ ret' = None
    /\ UNCHANGED <<outside, self, matches, spec, i, non_empty_unit, picks, trace>>

(* ------------------------------------------------------------------ *)
(* UnitTester::execute_single_test                                      *)
(* ------------------------------------------------------------------ *)

\* return Ok(()), the case ending `end` (skipped or verified).
ReturnOk(calls, end) ==
    /\ trace' = Logged(calls, end, Some(Ok(Unit)))
    /\ ret' = Some(Ok(Unit))
    /\ pc' = "return"
    /\ UNCHANGED <<outside, self, matches, spec, i, non_empty_unit, locals, result,
                   picks>>

\* return Err(self.err(kind)).
ReturnErr(calls, kind) ==
    /\ trace' = Logged(calls, "failed", Some(Err(err(kind))))
    /\ ret' = Some(Err(err(kind)))
    /\ pc' = "return"
    /\ UNCHANGED <<outside, self, matches, spec, i, non_empty_unit, locals, result,
                   picks>>

\* execute_single_test goes on to its next statement.
Goto(calls, next) ==
    /\ trace' = Logged(calls, "running", None)
    /\ pc' = next
    /\ UNCHANGED <<outside, self, matches, spec, i, non_empty_unit, ret, result,
                   picks>>

\* Exec_MakeState building the Working State in one process-wide instance
\* (a static) instead of a value of its own.
Exec_MakeState_global ==
    /\ pc = "make_state"
    /\ state' = Some(make_state(self.unit.pre, 1))
    /\ Goto(<<"make_state">>, "make_tx")
    /\ UNCHANGED <<test, tx, env, outcome, executed>>

\* let mut state = pre_transact::make_state(&self.unit.pre);
\* The Working State is a new value this call owns.
Exec_MakeState ==
    /\ pc = "make_state"
    /\ state' = Some(make_state(self.unit.pre, NewInstance))
    /\ Goto(<<"make_state">>, "make_tx")
    /\ UNCHANGED <<test, tx, env, outcome, executed>>

\* Exec_MakeTx with a transaction that cannot be constructed reported as an
\* error instead of being skipped.
Exec_MakeTx_strict ==
    /\ pc = "make_tx"
    /\ LET made == make_tx(self.unit.transaction, Unwrap(test).indexes,
                           self.unit.chainid,
                           extract_155_chain_id_from_raw_tx(
                               Unwrap(test).txbytes) = None)
       IN  IF made = None
           THEN ReturnErr(<<"make_tx">>, "TxBytesMismatch")
           ELSE /\ tx' = made
                /\ Goto(<<"make_tx">>, "check_tx_bytes")
                /\ UNCHANGED <<test, state, env, outcome, executed>>

\* let Some(tx) = pre_transact::make_tx(...) else { return Ok(()) };
Exec_MakeTx ==
    /\ pc = "make_tx"
    /\ LET made == make_tx(self.unit.transaction, Unwrap(test).indexes,
                           self.unit.chainid,
                           extract_155_chain_id_from_raw_tx(
                               Unwrap(test).txbytes) = None)
       IN  IF made = None
           THEN ReturnOk(<<"make_tx">>, "skipped")
           ELSE /\ tx' = made
                /\ Goto(<<"make_tx">>, "check_tx_bytes")
                /\ UNCHANGED <<test, state, env, outcome, executed>>

\* Exec_CheckTxBytes with the result of the check ignored.
Exec_CheckTxBytes_ignored ==
    /\ pc = "check_tx_bytes"
    /\ Goto(<<"check_tx_bytes">>, "make_block_env")
    /\ UNCHANGED locals

\* Exec_CheckTxBytes consulting the consensus gate before the declared
\* bytes: a gate failure is processed first.
Exec_CheckTxBytes_gate_first ==
    /\ pc = "check_tx_bytes"
    /\ LET checked == check_tx_bytes(Unwrap(test).txbytes, Unwrap(tx))
           gate == check_tx_common(
                       machine,
                       make_block_env(machine, self.unit.env,
                                      self.unit.chainid, hash(Unwrap(tx))),
                       Unwrap(tx), verification)
       IN  IF IsErr(gate)
           THEN LET processed == process_consensus_check_fail(
                                     gate.err, Unwrap(test).expect_exception)
                IN  IF IsErr(processed)
                    THEN ReturnErr(<<"check_tx_bytes">>, processed.err)
                    ELSE ReturnOk(<<"check_tx_bytes">>, "skipped")
           ELSE IF IsErr(checked)
                THEN ReturnErr(<<"check_tx_bytes">>, checked.err)
                ELSE /\ Goto(<<"check_tx_bytes">>, "make_block_env")
                     /\ UNCHANGED locals

\* pre_transact::check_tx_bytes(...).map_err(|kind| self.err(kind))?;
Exec_CheckTxBytes ==
    /\ pc = "check_tx_bytes"
    /\ LET checked == check_tx_bytes(Unwrap(test).txbytes, Unwrap(tx))
       IN  IF IsErr(checked)
           THEN ReturnErr(<<"check_tx_bytes">>, checked.err)
           ELSE /\ Goto(<<"check_tx_bytes">>, "make_block_env")
                /\ UNCHANGED locals

\* let env = pre_transact::make_block_env(...);
Exec_MakeBlockEnv ==
    /\ pc = "make_block_env"
    /\ env' = Some(make_block_env(machine, self.unit.env,
                                  self.unit.chainid, hash(Unwrap(tx))))
    /\ Goto(<<"make_block_env">>, "check_tx_common")
    /\ UNCHANGED <<test, state, tx, outcome, executed>>

\* Exec_CheckTxCommon without the return after an expected gate failure:
\* the case goes on to the engine.
Exec_CheckTxCommon_fallthrough ==
    /\ pc = "check_tx_common"
    /\ LET gate == check_tx_common(machine, Unwrap(env), Unwrap(tx), verification)
       IN  IF IsErr(gate)
           THEN LET processed == process_consensus_check_fail(
                                     gate.err, Unwrap(test).expect_exception)
                    calls == <<"check_tx_common",
                               "process_consensus_check_fail">>
                IN  IF IsErr(processed)
                    THEN ReturnErr(calls, processed.err)
                    ELSE /\ Goto(calls, "transact")
                         /\ UNCHANGED locals
           ELSE /\ Goto(<<"check_tx_common">>, "transact")
                /\ UNCHANGED locals

\* Exec_CheckTxCommon reporting a gate that passes for a case declaring an
\* expected exception as a gate mismatch, without calling the engine.
Exec_CheckTxCommon_strict ==
    /\ pc = "check_tx_common"
    /\ LET gate == check_tx_common(machine, Unwrap(env), Unwrap(tx), verification)
       IN  IF IsErr(gate)
           THEN LET processed == process_consensus_check_fail(
                                     gate.err, Unwrap(test).expect_exception)
                    calls == <<"check_tx_common",
                               "process_consensus_check_fail">>
                IN  IF IsErr(processed)
                    THEN ReturnErr(calls, processed.err)
                    ELSE ReturnOk(calls, "skipped")
           ELSE IF IsSome(Unwrap(test).expect_exception)
                THEN ReturnErr(<<"check_tx_common">>,
                               "ConsensusCheckMismatch")
                ELSE /\ Goto(<<"check_tx_common">>, "transact")
                     /\ UNCHANGED locals

\* if let Err(e) = pre_transact::check_tx_common(...) {
\*     return post_transact::process_consensus_check_fail(...)
\*         .map_err(|kind| self.err(kind)); }
Exec_CheckTxCommon ==
    /\ pc = "check_tx_common"
    /\ LET gate == check_tx_common(machine, Unwrap(env), Unwrap(tx), verification)
       IN  IF IsErr(gate)
           THEN LET processed == process_consensus_check_fail(
                                     gate.err, Unwrap(test).expect_exception)
                    calls == <<"check_tx_common",
                               "process_consensus_check_fail">>
                IN  IF IsErr(processed)
                    THEN ReturnErr(calls, processed.err)
                    ELSE ReturnOk(calls, "skipped")
           ELSE /\ Goto(<<"check_tx_common">>, "transact")
                /\ UNCHANGED locals

(* ------------------------------------------------------------------ *)
(* UnitTester::transact                                                 *)
(* ------------------------------------------------------------------ *)

\* Transact_Engine with the db error reported as a structured error of the
\* case instead of a panic.
Transact_Engine_reported ==
    /\ pc = "transact"
    /\ LET transact_options == make_transact_options(TRUE)
           ran == evm_transact(Unwrap(tx), transact_options)
       IN  IF IsErr(ran)
           THEN ReturnErr(<<"evm.transact">>, ran.err)
           ELSE /\ outcome' = Some(ran.val)
                /\ state' = Some(evm_state(Unwrap(state), Unwrap(tx)))
                /\ Goto(<<"evm.transact">>, "update_state")
                /\ UNCHANGED <<test, tx, env, executed>>

\* let outcome = evm.transact(transaction, options).expect("db error");
\* A db error panics: the run is aborted and returns nothing.
Transact_Engine ==
    /\ pc = "transact"
    /\ LET transact_options == make_transact_options(TRUE)
           ran == evm_transact(Unwrap(tx), transact_options)
       IN  IF IsErr(ran)
           THEN /\ trace' = Logged(<<"evm.transact">>, "aborted", None)
                /\ pc' = "panic"
                /\ UNCHANGED <<outside, self, matches, spec, i, non_empty_unit,
                               locals, ret, result, picks>>
           ELSE /\ outcome' = Some(ran.val)
                /\ state' = Some(evm_state(Unwrap(state), Unwrap(tx)))
                /\ Goto(<<"evm.transact">>, "update_state")
                /\ UNCHANGED <<test, tx, env, executed>>

\* Transact_UpdateState doing the bookkeeping only after an Executed
\* outcome.
Transact_UpdateState_executed_only ==
    /\ pc = "update_state"
    /\ IF Unwrap(outcome).kind = "Executed"
       THEN /\ state' = Some(update_state_post_tx_execution(Unwrap(state)))
            /\ Goto(<<"update_state_post_tx_execution">>,
                    "extract_executed")
       ELSE /\ state' = state
            /\ Goto(<<>>, "extract_executed")
    /\ UNCHANGED <<test, tx, env, outcome, executed>>

\* state.update_state_post_tx_execution(false); outcome
Transact_UpdateState ==
    /\ pc = "update_state"
    /\ state' = Some(update_state_post_tx_execution(Unwrap(state)))
    /\ Goto(<<"update_state_post_tx_execution">>, "extract_executed")
    /\ UNCHANGED <<test, tx, env, outcome, executed>>

(* ------------------------------------------------------------------ *)
(* UnitTester::execute_single_test, after the engine                    *)
(* ------------------------------------------------------------------ *)

\* Exec_ExtractExecuted taking the execution record of every Executed
\* outcome, whether or not the case declares an expected exception.
Exec_ExtractExecuted_unchecked ==
    /\ pc = "extract_executed"
    /\ IF Unwrap(outcome).kind = "Executed"
       THEN /\ executed' = Some([charge |-> Unwrap(outcome).charge])
            /\ Goto(<<"extract_executed">>, "distribute_tx_fee_to_miner")
            /\ UNCHANGED <<test, state, tx, env, outcome>>
       ELSE LET extracted == extract_executed(Unwrap(outcome),
                                              Unwrap(test).expect_exception)
            IN  IF IsErr(extracted)
                THEN ReturnErr(<<"extract_executed">>, extracted.err)
                ELSE ReturnOk(<<"extract_executed">>, "skipped")

\* let Some(executed) = post_transact::extract_executed(...)
\*     .map_err(|kind| self.err(kind))? else { return Ok(()) };
Exec_ExtractExecuted ==
    /\ pc = "extract_executed"
    /\ LET extracted == extract_executed(Unwrap(outcome),
                                         Unwrap(test).expect_exception)
       IN  IF IsErr(extracted)
           THEN ReturnErr(<<"extract_executed">>, extracted.err)
           ELSE IF extracted.val = None
                THEN ReturnOk(<<"extract_executed">>, "skipped")
                ELSE /\ executed' = extracted.val
                     /\ Goto(<<"extract_executed">>,
                             "distribute_tx_fee_to_miner")
                     /\ UNCHANGED <<test, state, tx, env, outcome>>

\* Exec_DistributeFee crediting the fee recipient twice.
Exec_DistributeFee_twice ==
    /\ pc = "distribute_tx_fee_to_miner"
    /\ state' = Some(distribute_tx_fee_to_miner(
                         distribute_tx_fee_to_miner(
                             Unwrap(state), Unwrap(executed),
                             Unwrap(env).author),
                         Unwrap(executed), Unwrap(env).author))
    /\ Goto(<<"distribute_tx_fee_to_miner">>, "check_execution_outcome")
    /\ UNCHANGED <<test, tx, env, outcome, executed>>

\* Exec_DistributeFee with a Working State that shares the fixture's
\* pre-state instead of owning a copy: the credit lands in unit.pre too.
Exec_DistributeFee_shared ==
    /\ pc = "distribute_tx_fee_to_miner"
    /\ state' = Some(distribute_tx_fee_to_miner(
                         Unwrap(state), Unwrap(executed), Unwrap(env).author))
    /\ self' = [self EXCEPT !.unit.pre[Unwrap(env).author] =
                                @ + Unwrap(executed).charge]
    /\ trace' = Logged(<<"distribute_tx_fee_to_miner">>, "running", None)
    /\ pc' = "check_execution_outcome"
    /\ UNCHANGED <<outside, matches, spec, i, non_empty_unit, ret, result, picks,
                   test, tx, env, outcome, executed>>

\* post_transact::distribute_tx_fee_to_miner(&mut state, &executed,
\*     &env.author, Space::Ethereum);
Exec_DistributeFee ==
    /\ pc = "distribute_tx_fee_to_miner"
    /\ state' = Some(distribute_tx_fee_to_miner(
                         Unwrap(state), Unwrap(executed), Unwrap(env).author))
    /\ Goto(<<"distribute_tx_fee_to_miner">>, "check_execution_outcome")
    /\ UNCHANGED <<test, tx, env, outcome, executed>>

\* Exec_CheckOutcome with the result of the comparison dropped.
Exec_CheckOutcome_unchecked ==
    /\ pc = "check_execution_outcome"
    /\ ReturnOk(<<"check_execution_outcome">>, "verified")

\* post_transact::check_execution_outcome(...)
\*     .map_err(|kind| self.err(kind))?; Ok(())
Exec_CheckOutcome ==
    /\ pc = "check_execution_outcome"
    /\ LET checked == check_execution_outcome(Unwrap(state),
                                              Unwrap(test).state)
       IN  IF IsErr(checked)
           THEN ReturnErr(<<"check_execution_outcome">>, checked.err)
           ELSE ReturnOk(<<"check_execution_outcome">>, "verified")

(* ------------------------------------------------------------------ *)
(* Specification                                                        *)
(* ------------------------------------------------------------------ *)

Next ==
    \/ Run_Filter
    \/ Run_PickSpec
    \/ Run_ForNext
    \/ Run_ForEnd
    \/ Run_CaseOk
    \/ Run_CaseErr
    \/ Exec_MakeState
    \/ Exec_MakeTx
    \/ Exec_CheckTxBytes
    \/ Exec_MakeBlockEnv
    \/ Exec_CheckTxCommon
    \/ Transact_Engine
    \/ Transact_UpdateState
    \/ Exec_ExtractExecuted
    \/ Exec_DistributeFee
    \/ Exec_CheckOutcome

Spec == Init /\ [][Next]_vars

\* run up to and including the fork selection.
NextPick ==
    \/ Run_Filter
    \/ Run_PickSpec

SpecPick == InitPick /\ [][NextPick]_vars

\* The scheduler of the caller lets the other worker step: its run is
\* taken up where it was left, and the run in hand is set aside as it is.
\* A Working State that is the same instance as the one in hand holds what
\* was written to the one in hand. After a panic no worker steps any more:
\* the fault is fatal to the process and aborts the entire run.
Switch ==
    /\ parked # None
    /\ pc # "panic"
    /\ LET other == Unwrap(parked)
       IN  /\ self' = other.self
           /\ matches' = other.matches
           /\ pc' = other.pc
           /\ spec' = other.spec
           /\ i' = other.i
           /\ non_empty_unit' = other.non_empty_unit
           /\ test' = other.test
           /\ state' = IF SameInstance(state, other.state)
                       THEN state
                       ELSE other.state
           /\ tx' = other.tx
           /\ env' = other.env
           /\ outcome' = other.outcome
           /\ executed' = other.executed
           /\ ret' = other.ret
           /\ result' = other.result
           /\ picks' = other.picks
           /\ trace' = other.trace
    /\ parked' = Some(Worker)
    /\ who' = 3 - who
    /\ UNCHANGED <<machine, verification>>

\* Two runs on parallel workers: every interleaving of their steps.
NextPar ==
    \/ Next
    \/ Switch

SpecPar == InitPar /\ [][NextPar]_vars

(* ------------------------------------------------------------------ *)
(* Properties of the fork selection                                     *)
(* ------------------------------------------------------------------ *)

\* The fork map of the fixture, in iteration order.
Post == self.unit.post

\* The positions of the fork map whose fork the runner supports.
Qualifying == {k \in DOMAIN Post : to_spec_id(Post[k].name) <= PRAGUE}

\* The greatest identifier among the supported forks of the fixture.
GreatestId ==
    CHOOSE m \in {to_spec_id(Post[k].name) : k \in Qualifying} :
        \A k \in Qualifying : to_spec_id(Post[k].name) <= m

\* The first position, in iteration order, of a fork with that identifier.
FirstGreatest ==
    CHOOSE k \in Qualifying :
        /\ to_spec_id(Post[k].name) = GreatestId
        /\ \A j \in Qualifying :
             to_spec_id(Post[j].name) = GreatestId => k <= j

\* C1: once pick_spec has run, the selected fork's identifier never exceeds
\* SpecId::PRAGUE, and when some fork of the fixture has an identifier
\* <= PRAGUE a fork is selected and its identifier is the greatest of
\* those, whatever the iteration order of the fork map.
C1_PickGreatestSupported ==
    picks = 1 =>
        /\ IsSome(spec) => to_spec_id(Unwrap(spec).name) <= PRAGUE
        /\ Qualifying # {} =>
             /\ IsSome(spec)
             /\ to_spec_id(Unwrap(spec).name) = GreatestId

\* C1 witness: a fork above the maximum comes first in the iteration order,
\* the greatest supported fork is neither first nor last, and it is selected.
C1_Witness ==
    /\ picks = 1
    /\ Len(Post) >= 3
    /\ to_spec_id(Post[1].name) > PRAGUE
    /\ Qualifying # {}
    /\ FirstGreatest \notin {1, Len(Post)}
    /\ spec = Some(Post[FirstGreatest])

\* C2: when several supported forks share the greatest identifier,
\* pick_spec returns the one met first in iteration order, and a fork is
\* returned: the duplicate is no error.
C2_TieKeepsFirst ==
    (picks = 1 /\ Qualifying # {}) => spec = Some(Post[FirstGreatest])

\* C2 witness: two fork names with the greatest identifier, the first of
\* them selected.
C2_Witness ==
    /\ picks = 1
    /\ \E j, k \in Qualifying :
         /\ j < k
         /\ to_spec_id(Post[j].name) = GreatestId
         /\ to_spec_id(Post[k].name) = GreatestId
         /\ spec = Some(Post[j])

\* C3: when no fork of the fixture is supported (or the fork map is empty),
\* pick_spec returns None, run returns Ok(false) and no case logic has run:
\* no case was started, and no Working State, transaction or environment
\* was built.
C3_NoForkNoCase ==
    (picks = 1 /\ Qualifying = {}) =>
        /\ spec = None
        /\ pc = "done"
        /\ result = Some(Ok(FALSE))
        /\ trace = <<>>
        /\ i = 0
        /\ test = None /\ state = None /\ tx = None /\ env = None
        /\ outcome = None /\ executed = None /\ ret = None

\* C3 witness: a fixture whose only fork exceeds the maximum was skipped.
C3_Witness ==
    /\ picks = 1
    /\ Len(Post) = 1
    /\ to_spec_id(Post[1].name) > PRAGUE
    /\ result = Some(Ok(FALSE))

(* ------------------------------------------------------------------ *)
(* Properties of one case                                               *)
(* ------------------------------------------------------------------ *)

\* The history of the case being run, or run last.
Cur == trace[Len(trace)]

\* Whether, and how often, collaborator `c` occurs in the calls `calls`.
Has(calls, c) == \E k \in DOMAIN calls : calls[k] = c
Count(calls, c) == Cardinality({k \in DOMAIN calls : calls[k] = c})

\* The structured error of kind `kind` carrying the fixture's identity.
FixtureError(kind) ==
    [name |-> FixtureName, path |-> FixturePath, kind |-> kind]

\* The case in hand has a constructed transaction and declares raw bytes
\* that differ from the re-encoded transaction.
BytesDiffer ==
    /\ IsSome(test)
    /\ IsSome(tx)
    /\ IsSome(Unwrap(test).txbytes)
    /\ Unwrap(Unwrap(test).txbytes) # rlp_bytes(Unwrap(tx))

\* C4: a case whose transaction is constructed and whose declared raw bytes
\* differ from the re-encoded transaction is, as soon as the bytes have been
\* checked, at the return of execute_single_test with the TxBytesMismatch
\* error carrying the fixture's path and name; the consensus gate and the
\* engine were not called for it.
C4_BytesMismatchIsError ==
    (BytesDiffer /\ pc # "check_tx_bytes") =>
        /\ pc = "return"
        /\ ret = Some(Err(FixtureError("TxBytesMismatch")))
        /\ Cur.calls = <<"make_state", "make_tx", "check_tx_bytes">>

\* C4 witness: the error is returned for a case that the gate would pass,
\* the engine would execute and the verifier would accept.
C4_Witness ==
    /\ BytesDiffer
    /\ pc = "return"
    /\ ret = Some(Err(FixtureError("TxBytesMismatch")))
    /\ Unwrap(tx).gate = "ok"
    /\ Unwrap(tx).engine = "executed"
    /\ Unwrap(test).expect_exception = None
    /\ Unwrap(test).state =
         [a \in Accounts |-> IF a = Sender
                             THEN PreState[Sender] - Unwrap(tx).charge
                             ELSE PreState[Coinbase] + Unwrap(tx).charge]

\* The consensus gate was called for the case in hand and failed.
GateFailed ==
    /\ IsSome(test)
    /\ IsSome(tx)
    /\ IsSome(env)
    /\ Has(Cur.calls, "check_tx_common")
    /\ IsErr(check_tx_common(machine, Unwrap(env), Unwrap(tx), verification))

\* The gate's failure matches the expected exception the case declares.
GateFailureExpected ==
    IsOk(process_consensus_check_fail(
             check_tx_common(machine, Unwrap(env), Unwrap(tx), verification).err,
             Unwrap(test).expect_exception))

\* C5: a case whose consensus-gate validation fails with the failure its
\* expected-exception label names returns Ok(()) (passed), and for it the
\* engine was called zero times and neither fee settlement nor post-state
\* verification ran.
C5_ExpectedGateFailurePasses ==
    (GateFailed /\ GateFailureExpected) =>
        /\ pc = "return"
        /\ ret = Some(Ok(Unit))
        /\ Cur.outcome = "skipped"
        /\ Count(Cur.calls, "evm.transact") = 0
        /\ ~Has(Cur.calls, "update_state_post_tx_execution")
        /\ ~Has(Cur.calls, "distribute_tx_fee_to_miner")
        /\ ~Has(Cur.calls, "check_execution_outcome")

\* C5 witness: a case with a declared label returned Ok after the gate failed.
C5_Witness ==
    /\ GateFailed
    /\ IsSome(Unwrap(test).expect_exception)
    /\ GateFailureExpected
    /\ pc = "return"
    /\ ret = Some(Ok(Unit))

\* C6: a case whose consensus-gate validation fails while no expected
\* exception is declared, or the declared one does not match, returns a
\* structured error with the fixture's path and name, and the engine was not
\* called for it.
C6_UnexpectedGateFailureIsError ==
    (GateFailed /\ ~GateFailureExpected) =>
        /\ pc = "return"
        /\ ret = Some(Err(FixtureError("ConsensusCheckMismatch")))
        /\ Cur.outcome = "failed"
        /\ ~Has(Cur.calls, "evm.transact")

\* C6 witness: the gate failed with another failure than the declared one.
C6_Witness ==
    /\ GateFailed
    /\ IsSome(Unwrap(test).expect_exception)
    /\ ~GateFailureExpected
    /\ pc = "return"
    /\ IsErr(Unwrap(ret))

\* The calls of a case that reaches post-state verification, in order.
CallsBeforeVerification ==
    <<"make_state", "make_tx", "check_tx_bytes", "make_block_env",
      "check_tx_common", "evm.transact", "update_state_post_tx_execution",
      "extract_executed", "distribute_tx_fee_to_miner">>

\* The balances after the engine executed the transaction in hand on the
\* fixture's pre-state: the sender has paid the charge.
PostExecutionBalance ==
    [a \in Accounts |-> IF a = Sender
                        THEN PreState[Sender] - Unwrap(tx).charge
                        ELSE PreState[a]]

\* C7: a case that reaches post-state verification has credited the fee
\* recipient exactly once, after the engine call and before the comparison,
\* and the state it compares is the post-execution state plus the
\* transaction's charge on env.author; a case that ended without
\* verification has credited nothing.
C7_OneCreditBeforeVerification ==
    /\ \A k \in DOMAIN trace :
         /\ Count(trace[k].calls, "distribute_tx_fee_to_miner") <= 1
         /\ Has(trace[k].calls, "check_execution_outcome") =>
              trace[k].calls =
                  CallsBeforeVerification \o <<"check_execution_outcome">>
         /\ (trace[k].outcome # "running"
               /\ ~Has(trace[k].calls, "check_execution_outcome")) =>
              ~Has(trace[k].calls, "distribute_tx_fee_to_miner")
    /\ pc = "check_execution_outcome" =>
         /\ Cur.calls = CallsBeforeVerification
         /\ Unwrap(state).balance =
              [PostExecutionBalance EXCEPT ![Unwrap(env).author] =
                   @ + Unwrap(tx).charge]

\* C7 witness: a case is about to be verified with the fee recipient's
\* balance raised by a charge of 2.
C7_Witness ==
    /\ pc = "check_execution_outcome"
    /\ Unwrap(tx).charge = 2
    /\ Unwrap(env).author = Coinbase
    /\ Unwrap(state).balance[Coinbase] = PreState[Coinbase] + 2

(* ------------------------------------------------------------------ *)
(* Properties of the run                                                *)
(* ------------------------------------------------------------------ *)

\* C8: the fixture, its pre-state included, is never modified; every case
\* starts from the Working State built from the pre-state, whatever the
\* earlier cases did; and no Working State, transaction or environment
\* outlives its case: between two cases and at the start of a case none
\* exists.
C8_CaseIndependence ==
    /\ self.unit.pre = PreState
    /\ self = new(FixturePath, FixtureName,
                  [pre |-> PreState, transaction |-> TxTemplate,
                   env |-> EnvTemplate, chainid |-> ChainId, post |-> Post])
    /\ pc = "make_tx" =>
         /\ state = Some([balance |-> PreState, dirty |-> FALSE,
                         instance |-> 1])
         /\ tx = None /\ env = None /\ outcome = None /\ executed = None
    /\ pc \in {"for", "make_state", "done"} =>
         /\ state = None /\ tx = None /\ env = None
         /\ outcome = None /\ executed = None

\* C8 witness: the second case starts from the pre-state although the first
\* case executed, was credited with fees and was verified.
C8_Witness ==
    /\ pc = "make_tx"
    /\ Len(trace) = 2
    /\ trace[1].outcome = "verified"
    /\ Has(trace[1].calls, "distribute_tx_fee_to_miner")
    /\ state = Some([balance |-> PreState, dirty |-> FALSE,
                         instance |-> 1])

\* C9: cases are taken in fixture order; every case before the last one
\* started returned Ok; a case that returned a structured error is the last
\* one started, and run is returning or has returned that very error.
C9_FailFast ==
    /\ Len(trace) = i
    /\ \A k \in DOMAIN trace :
         /\ trace[k].pos = k
         /\ k < Len(trace) =>
              /\ trace[k].outcome \in {"skipped", "verified"}
              /\ trace[k].ret = Some(Ok(Unit))
         /\ trace[k].outcome = "failed" =>
              /\ k = Len(trace)
              /\ IsErr(Unwrap(trace[k].ret))
              /\ \/ pc = "return" /\ ret = trace[k].ret /\ result = None
                 \/ pc = "done" /\ result = trace[k].ret
    /\ (IsSome(result) /\ IsErr(Unwrap(result))) =>
         /\ pc = "done"
         /\ Cur.outcome = "failed"

\* C9 witness: run returned the error of the first case although the case
\* list could hold more cases.
C9_Witness ==
    /\ pc = "done"
    /\ IsSome(result)
    /\ IsErr(Unwrap(result))
    /\ Len(trace) = 1
    /\ i < MaxTests

\* Some case of the run reached the execution engine.
EngineReached == \E k \in DOMAIN trace : Has(trace[k].calls, "evm.transact")

\* C10 as stated: a completed run reports Ok(true) exactly when at least one
\* case reached the execution engine.
C10_PassedIffExecuted ==
    (IsSome(result) /\ IsOk(Unwrap(result))) =>
        (Unwrap(result).val <=> EngineReached)

\* C10 amended: a completed run reports Ok(true) exactly when at least one
\* case of the selected fork was run, every case having returned Ok
\* (verified or trivially skipped, with or without reaching the engine);
\* it reports Ok(false) exactly when no case was run.
C10_PassedIffSomeCaseReturnedOk ==
    (IsSome(result) /\ IsOk(Unwrap(result))) =>
        /\ Unwrap(result).val <=> (Len(trace) >= 1)
        /\ Unwrap(result).val <=> non_empty_unit
        /\ \A k \in DOMAIN trace :
             /\ trace[k].outcome \in {"skipped", "verified"}
             /\ trace[k].ret = Some(Ok(Unit))

\* C10 witness: run returned Ok(true) although no case reached the engine.
C10_Witness ==
    /\ result = Some(Ok(TRUE))
    /\ Len(trace) >= 1
    /\ ~EngineReached

(* ------------------------------------------------------------------ *)
(* Trivial skips, infrastructure faults, the selection filter           *)
(* ------------------------------------------------------------------ *)

\* No transaction can be constructed for the case in hand.
Unconstructible ==
    /\ IsSome(test)
    /\ ~self.unit.transaction[Unwrap(test).indexes].decodable

\* The calls of a case that ends at make_tx.
CallsOfSkippedAtMakeTx == <<"make_state", "make_tx">>

\* C11: a case whose transaction cannot be constructed returns Ok(()) right
\* after make_tx: no bytes check, gate, engine call, fee credit or
\* verification runs for it; and a run all of whose cases ended that way
\* returns Ok(true).
C11_UnconstructibleIsSkipped ==
    /\ (Unconstructible /\ pc \notin {"make_state", "make_tx"}) =>
         /\ pc = "return"
         /\ ret = Some(Ok(Unit))
         /\ tx = None /\ env = None /\ outcome = None /\ executed = None
         /\ Cur.calls = CallsOfSkippedAtMakeTx
         /\ Cur.outcome = "skipped"
    /\ (pc = "done" /\ Len(trace) >= 1
          /\ \A k \in DOMAIN trace : trace[k].calls = CallsOfSkippedAtMakeTx)
         => result = Some(Ok(TRUE))

\* C11 witness: a run whose only case had an unconstructible transaction
\* returned Ok(true).
C11_Witness ==
    /\ pc = "done"
    /\ Len(trace) = 1
    /\ trace[1].calls = CallsOfSkippedAtMakeTx
    /\ result = Some(Ok(TRUE))

\* The engine was called for the case in hand and answered with a db error.
EngineFault ==
    /\ IsSome(tx)
    /\ Len(trace) >= 1
    /\ Has(Cur.calls, "evm.transact")
    /\ IsErr(evm_transact(Unwrap(tx), make_transact_options(TRUE)))

\* After a db error of the engine the call of run in hand is aborted: it
\* has returned nothing (no TestError, no Ok), execute_single_test has
\* returned nothing, the engine call is the last call made (no
\* bookkeeping, reconciliation, fee credit or verification), the aborted
\* case is the last one started, and only a db error aborts a case.
FaultAbortsRun ==
    /\ EngineFault =>
         /\ pc = "panic"
         /\ result = None
         /\ ret = None
         /\ Cur.outcome = "aborted"
         /\ Cur.ret = None
         /\ Cur.calls = <<"make_state", "make_tx", "check_tx_bytes",
                          "make_block_env", "check_tx_common", "evm.transact">>
    /\ \A k \in DOMAIN trace :
         trace[k].outcome = "aborted" =>
             k = Len(trace) /\ pc = "panic" /\ EngineFault
    /\ pc = "panic" => EngineFault

FilterMatches ==
    \/ matches = None
    \/ contains(FixturePath \o <<":", ":">> \o FixtureName, Unwrap(matches))

\* C13: a fixture the filter does not match ends with Ok(false) and nothing
\* else done: pick_spec was not called and no case was started; a fixture
\* without filter, or matching it, goes on to the fork selection.
C13_FilterSkipsWithoutEffect ==
    /\ (pc # "run" /\ ~FilterMatches) =>
         /\ pc = "done"
         /\ result = Some(Ok(FALSE))
         /\ picks = 0
         /\ spec = None
         /\ i = 0
         /\ non_empty_unit = FALSE
         /\ trace = <<>>
         /\ test = None /\ state = None /\ tx = None /\ env = None
         /\ outcome = None /\ executed = None /\ ret = None
    /\ (pc # "run" /\ FilterMatches) =>
         \/ pc = "pick_spec" /\ picks = 0 /\ result = None
         \/ picks = 1

\* C13 witness: a fixture with a supported fork was skipped by the filter.
C13_Witness ==
    /\ IsSome(matches)
    /\ ~FilterMatches
    /\ Qualifying # {}
    /\ pc = "done"
    /\ result = Some(Ok(FALSE))

(* ------------------------------------------------------------------ *)
(* The cases of the selected fork                                       *)
(* ------------------------------------------------------------------ *)

\* C15: every case the run executes belongs to the list of the fork that
\* pick_spec selected: the first fork, in iteration order, with the
\* greatest supported identifier. No case of a fork above the maximum, of
\* a lower fork, or of an alias that lost the tie is ever executed.
C15_OnlySelectedForkRuns ==
    /\ trace # <<>> =>
         /\ IsSome(spec)
         /\ \E k \in DOMAIN Post :
              /\ Post[k] = Unwrap(spec)
              /\ to_spec_id(Post[k].name) <= PRAGUE
              /\ \A j \in DOMAIN Post :
                   to_spec_id(Post[j].name) <= PRAGUE =>
                       \/ to_spec_id(Post[j].name) < to_spec_id(Post[k].name)
                       \/ /\ to_spec_id(Post[j].name)
                               = to_spec_id(Post[k].name)
                          /\ k <= j
         /\ \A k \in DOMAIN trace :
              /\ trace[k].fork = Unwrap(spec).name
              /\ trace[k].pos = k
    /\ IsSome(test) => Unwrap(test).fork = Unwrap(spec).name

\* C15 witness: the fixture lists a fork above the maximum first and the
\* selected fork second, and two cases have been executed.
C15_Witness ==
    /\ Len(Post) = 2
    /\ to_spec_id(Post[1].name) > PRAGUE
    /\ IsSome(spec)
    /\ Unwrap(spec) = Post[2]
    /\ Len(trace) = 2
    /\ trace[2].outcome = "verified"

(* ------------------------------------------------------------------ *)
(* After the engine: settlement, verification, bookkeeping              *)
(* ------------------------------------------------------------------ *)

\* The consensus gate was called for the case in hand and passed.
GatePassed ==
    /\ IsSome(test)
    /\ IsSome(tx)
    /\ IsSome(env)
    /\ Has(Cur.calls, "check_tx_common")
    /\ IsOk(check_tx_common(machine, Unwrap(env), Unwrap(tx), verification))

\* The engine returned the outcome `kind` for the case in hand.
EngineOutcome(kind) == IsSome(outcome) /\ Unwrap(outcome).kind = kind

\* Fee settlement, post-state verification ran for the case in hand.
Settled == Has(Cur.calls, "distribute_tx_fee_to_miner")
Verified == Has(Cur.calls, "check_execution_outcome")

\* C16: when a case returns, fee settlement and post-state verification
\* have run for it exactly when the gate passed, the engine reported
\* Executed and the case declares no expected exception. An Executed
\* outcome of a case that declares an expected exception is the
\* OutcomeMismatch error with neither settlement nor verification, and a
\* rejection before inclusion that matches the declared exception returns
\* Ok(()) with neither settlement nor verification.
C16_SettlementIffExecutedUnexpected ==
    /\ (IsSome(test) /\ Len(trace) >= 1 /\ (Settled \/ Verified)) =>
         /\ GatePassed
         /\ EngineOutcome("Executed")
         /\ Unwrap(test).expect_exception = None
    /\ pc = "return" =>
         /\ (Settled /\ Verified) <=>
              (/\ GatePassed
               /\ EngineOutcome("Executed")
               /\ Unwrap(test).expect_exception = None)
         /\ Settled <=> Verified
         /\ (EngineOutcome("Executed")
               /\ IsSome(Unwrap(test).expect_exception)) =>
              /\ ret = Some(Err(FixtureError("OutcomeMismatch")))
              /\ ~Settled /\ ~Verified
              /\ Unwrap(state).balance = PostExecutionBalance
         /\ (EngineOutcome("NotExecuted")
               /\ Unwrap(test).expect_exception
                    = Some(Unwrap(outcome).reason)) =>
              /\ ret = Some(Ok(Unit))
              /\ ~Settled /\ ~Verified
              /\ Unwrap(state).balance = PreState

\* C16 witness: a case that declares an expected exception came back from
\* the engine Executed and has returned the error.
C16_Witness ==
    /\ pc = "return"
    /\ GatePassed
    /\ EngineOutcome("Executed")
    /\ IsSome(Unwrap(test).expect_exception)
    /\ IsErr(Unwrap(ret))

\* C17: for every case, once the engine has returned an outcome,
\* update_state_post_tx_execution is called exactly once, as the seventh
\* call of the case: right after the engine call, the sixth, and before
\* extract_executed decides about the outcome, whatever the outcome is;
\* from then on the Working State has no uncommitted bookkeeping.
C17_BookkeepingOnceAfterEngine ==
    /\ \A k \in DOMAIN trace :
         LET calls == trace[k].calls
         IN  /\ \A j \in DOMAIN calls :
                  /\ calls[j] = "evm.transact" => j = 6
                  /\ calls[j] = "update_state_post_tx_execution" =>
                       (j = 7 /\ calls[6] = "evm.transact")
                  /\ calls[j] = "extract_executed" =>
                       (j = 8
                          /\ calls[7] = "update_state_post_tx_execution")
             /\ (Len(calls) >= 6 /\ calls[6] = "evm.transact"
                   /\ trace[k].outcome \notin {"running", "aborted"}) =>
                  /\ Len(calls) >= 7
                  /\ calls[7] = "update_state_post_tx_execution"
    /\ IsSome(outcome) =>
         IF pc = "update_state"
         THEN /\ Len(Cur.calls) = 6
              /\ Cur.calls[6] = "evm.transact"
              /\ Unwrap(state).dirty
         ELSE /\ Len(Cur.calls) >= 7
              /\ Cur.calls[7] = "update_state_post_tx_execution"
              /\ ~Unwrap(state).dirty

\* C17 witness: a case the engine rejected before inclusion has returned,
\* after one bookkeeping update.
C17_Witness ==
    /\ pc = "return"
    /\ EngineOutcome("NotExecuted")
    /\ Count(Cur.calls, "update_state_post_tx_execution") = 1
    /\ ~Unwrap(state).dirty
    /\ ret = Some(Ok(Unit))

(* ------------------------------------------------------------------ *)
(* The outcomes of a case                                               *)
(* ------------------------------------------------------------------ *)

\* The calls of a verified case, and their first n.
AllCalls == CallsBeforeVerification \o <<"check_execution_outcome">>
FirstCalls(n) == SubSeq(AllCalls, 1, n)

\* The calls of a case that ends at a failing consensus gate.
CallsOfGateFailure == FirstCalls(5) \o <<"process_consensus_check_fail">>

\* C18: every case that was started and did not hit a db error ends in
\* exactly one of three outcomes. Trivially skipped: it returned Ok(())
\* at make_tx, at an expected gate failure or at an expected rejection by
\* the engine, without verification. Executed and verified: it returned
\* Ok(()) after all collaborators ran and the post-state comparison
\* succeeded. Failed: it returned a structured error. A case that
\* returned an error is not verified and is the last case of the run, a
\* case skipped before the engine has no engine call, and the record of a
\* case that has ended is one of these and no other.
C18_ExactlyOneOutcome ==
    /\ \A k \in DOMAIN trace :
         LET e == trace[k]
         IN  /\ e.outcome \in {"running", "skipped", "verified", "failed",
                               "aborted"}
             /\ e.outcome = "running" =>
                  /\ k = Len(trace)
                  /\ e.ret = None
                  /\ pc \notin {"run", "pick_spec", "for", "return", "done",
                                "panic"}
             /\ e.outcome = "skipped" =>
                  /\ e.ret = Some(Ok(Unit))
                  /\ e.calls \in {FirstCalls(2), CallsOfGateFailure,
                                  FirstCalls(8)}
             /\ e.outcome = "verified" =>
                  /\ e.ret = Some(Ok(Unit))
                  /\ e.calls = AllCalls
             /\ e.outcome = "failed" =>
                  /\ IsSome(e.ret)
                  /\ IsErr(Unwrap(e.ret))
                  /\ e.calls \in {FirstCalls(3), CallsOfGateFailure,
                                  FirstCalls(8), AllCalls}
             /\ e.outcome = "aborted" =>
                  /\ k = Len(trace)
                  /\ e.ret = None
                  /\ e.calls = FirstCalls(6)
                  /\ pc = "panic"
             /\ k < Len(trace) => e.outcome \in {"skipped", "verified"}
    /\ pc = "return" =>
         /\ ret = Cur.ret
         /\ Cur.outcome \in {"skipped", "verified", "failed"}
         /\ Cur.outcome = "failed" <=> IsErr(Unwrap(ret))
         /\ Cur.outcome = "verified" <=>
              (/\ Verified
               /\ IsOk(check_execution_outcome(Unwrap(state),
                                               Unwrap(test).state)))
         /\ Cur.outcome = "skipped" <=> (IsOk(Unwrap(ret)) /\ ~Verified)
    /\ (pc \in {"for", "done"} /\ Len(trace) >= 1) =>
         Cur.outcome \in {"skipped", "verified", "failed"}

\* C18 witness: a run whose first case was skipped at make_tx and whose
\* second case failed the post-state comparison has ended.
C18_Witness ==
    /\ pc = "done"
    /\ Len(trace) = 2
    /\ trace[1].outcome = "skipped"
    /\ trace[1].calls = FirstCalls(2)
    /\ trace[2].outcome = "failed"
    /\ trace[2].calls = AllCalls
    /\ trace[2].ret = Some(Err(FixtureError("StateMismatch")))

\* C19 as stated: a case that declares an expected exception and whose
\* consensus gate passes returns a structured error, whatever outcome the
\* engine returns.
C19_GatePassWithExpectationIsError ==
    (pc = "return" /\ GatePassed
       /\ IsSome(Unwrap(test).expect_exception)) =>
        IsErr(Unwrap(ret))

\* C19, amended: a case that declares an expected exception and whose
\* consensus gate passes is handed to the engine. It returns the
\* OutcomeMismatch error when the engine reports Executed or rejects the
\* transaction for another reason than the declared one, and it returns
\* Ok(()) as trivially skipped when the engine rejects the transaction
\* before inclusion for the declared reason; in no case do fee settlement
\* or post-state verification run.
C19_GatePassWithExpectationFollowsEngine ==
    (pc = "return" /\ GatePassed
       /\ IsSome(Unwrap(test).expect_exception)) =>
        /\ Cur.calls = FirstCalls(8)
        /\ IsSome(outcome)
        /\ IF /\ Unwrap(outcome).kind = "NotExecuted"
              /\ Unwrap(test).expect_exception
                   = Some(Unwrap(outcome).reason)
           THEN /\ ret = Some(Ok(Unit))
                /\ Cur.outcome = "skipped"
           ELSE ret = Some(Err(FixtureError("OutcomeMismatch")))

\* C19 witness: a case that declares an expected exception passed the
\* gate, was rejected by the engine for the declared reason, and returned
\* Ok(()).
C19_Witness ==
    /\ pc = "return"
    /\ GatePassed
    /\ IsSome(Unwrap(test).expect_exception)
    /\ EngineOutcome("NotExecuted")
    /\ ret = Some(Ok(Unit))

\* C20: whether a transaction can be constructed is decided before the
\* declared bytes are looked at, and the bytes are checked before the
\* block environment is built and the gate consulted. A case without a
\* constructible transaction never returns TxBytesMismatch, whatever bytes
\* it declares; a case whose bytes differ returns TxBytesMismatch without
\* an environment, also when its transaction would fail the gate.
C20_OrderOfEarlyChecks ==
    /\ \A k \in DOMAIN trace :
         LET calls == trace[k].calls
         IN  /\ Len(calls) <= Len(AllCalls)
             /\ \/ calls = FirstCalls(Len(calls))
                \/ calls = CallsOfGateFailure
    /\ pc = "check_tx_bytes" => (IsSome(tx) /\ env = None)
    /\ pc \in {"make_block_env", "check_tx_common"} =>
         (IsSome(tx) /\ ~BytesDiffer)
    /\ (Unconstructible /\ pc = "return") =>
         /\ ret = Some(Ok(Unit))
         /\ ~Has(Cur.calls, "check_tx_bytes")
    /\ (BytesDiffer /\ pc = "return") =>
         /\ ret = Some(Err(FixtureError("TxBytesMismatch")))
         /\ env = None
         /\ ~Has(Cur.calls, "make_block_env")
         /\ ~Has(Cur.calls, "check_tx_common")

\* C20 witness: a case whose bytes differ and whose transaction would fail
\* the gate with the failure it declares as expected has returned
\* TxBytesMismatch.
C20_Witness ==
    /\ pc = "return"
    /\ BytesDiffer
    /\ Unwrap(tx).gate = "fail"
    /\ Unwrap(test).expect_exception = Some(Unwrap(tx).reason)
    /\ ret = Some(Err(FixtureError("TxBytesMismatch")))

(* ------------------------------------------------------------------ *)
(* Two fixtures on parallel workers                                     *)
(* ------------------------------------------------------------------ *)

\* What case `t` of the fixture `u` (a UnitTester) does when the fixture
\* is run alone with the policy objects as the caller built them, its
\* Working State being the instance `n`: the calls made, the value
\* returned (None: db error) and the Working State after each call that
\* writes it.
SoloCase(u, t, n) ==
    LET fail(kind) == Some(Err([name |-> u.name, path |-> u.path,
                                kind |-> kind]))
        pass == Some(Ok(Unit))
        made_state == make_state(u.unit.pre, n)
        made == make_tx(u.unit.transaction, t.indexes, u.unit.chainid,
                        extract_155_chain_id_from_raw_tx(t.txbytes) = None)
        transaction == Unwrap(made)
        block_env == make_block_env(Machine, u.unit.env, u.unit.chainid,
                                    hash(transaction))
        gate == check_tx_common(Machine, block_env, transaction,
                                VerificationConfig)
        processed == process_consensus_check_fail(gate.err,
                                                  t.expect_exception)
        ran == evm_transact(transaction, make_transact_options(TRUE))
        ran_state == evm_state(made_state, transaction)
        updated == update_state_post_tx_execution(ran_state)
        extracted == extract_executed(ran.val, t.expect_exception)
        settled == distribute_tx_fee_to_miner(updated, Unwrap(extracted.val),
                                              block_env.author)
        checked == check_execution_outcome(settled, t.state)
    IN  IF made = None
        THEN [calls |-> FirstCalls(2), ret |-> pass,
              states |-> <<made_state>>]
        ELSE IF IsErr(check_tx_bytes(t.txbytes, transaction))
        THEN [calls |-> FirstCalls(3), ret |-> fail("TxBytesMismatch"),
              states |-> <<made_state>>]
        ELSE IF IsErr(gate)
        THEN [calls |-> CallsOfGateFailure,
              ret |-> IF IsErr(processed) THEN fail(processed.err) ELSE pass,
              states |-> <<made_state>>]
        ELSE IF IsErr(ran)
        THEN [calls |-> FirstCalls(6), ret |-> None,
              states |-> <<made_state, made_state>>]
        ELSE IF IsErr(extracted)
        THEN [calls |-> FirstCalls(8), ret |-> fail(extracted.err),
              states |-> <<made_state, ran_state, updated>>]
        ELSE IF extracted.val = None
        THEN [calls |-> FirstCalls(8), ret |-> pass,
              states |-> <<made_state, ran_state, updated>>]
        ELSE [calls |-> AllCalls,
              ret |-> IF IsErr(checked) THEN fail(checked.err) ELSE pass,
              states |-> <<made_state, ran_state, updated, settled>>]

\* The number of writes to the Working State among the calls `calls`.
Writes(calls) ==
    Cardinality({k \in DOMAIN calls :
                   calls[k] \in {"make_state", "evm.transact",
                                 "update_state_post_tx_execution",
                                 "distribute_tx_fee_to_miner"}})

\* The run `w` of a worker is, as far as it has come, the run of its
\* fixture alone: the case in hand has made the calls, holds the Working
\* State and returns the value of the case run alone, and the run returns
\* what the values its cases returned determine.
AsAlone(w) ==
    /\ w.self.path = (IF w.self.name = FixtureName THEN FixturePath
                      ELSE OtherPath)
    /\ IsSome(w.test) =>
         LET solo == SoloCase(w.self, Unwrap(w.test),
                              IF IsSome(w.state)
                              THEN Unwrap(w.state).instance ELSE 1)
             cur == w.trace[Len(w.trace)]
         IN  /\ Len(cur.calls) <= Len(solo.calls)
             /\ cur.calls = SubSeq(solo.calls, 1, Len(cur.calls))
             /\ IF Writes(cur.calls) = 0
                THEN w.state = None
                ELSE w.state = Some(solo.states[Writes(cur.calls)])
             /\ w.pc = "return" =>
                  /\ cur.calls = solo.calls
                  /\ w.ret = solo.ret
             /\ w.pc = "panic" =>
                  /\ cur.calls = solo.calls
                  /\ solo.ret = None
    /\ w.pc = "done" =>
         w.result =
           IF Len(w.trace) >= 1 /\ w.trace[Len(w.trace)].outcome = "failed"
           THEN w.trace[Len(w.trace)].ret
           ELSE Some(Ok(Len(w.trace) >= 1))

====
